---- MODULE Spec2Model ----
(***************************************************************************)
(* Model of kittens/ssh/completion.py: the ssh completion kitten.          *)
(*                                                                         *)
(* A Python str is a sequence of one-character strings, a dict is a        *)
(* function whose domain is its set of keys, a tuple/list is a sequence.   *)
(* Python's 0-based indices are kept; At and Slice translate them.         *)
(***************************************************************************)
EXTENDS Integers, Sequences, FiniteSets, TLC

VARIABLES env, known_hosts_cache, ssh_options_cache, option_help_cache,
          runs, pc, error, words, new_word, types, expecting_arg, match_groups,
          called

vars == <<env, known_hosts_cache, ssh_options_cache, option_help_cache,
          runs, pc, error, words, new_word, types, expecting_arg, match_groups,
          called>>

(***************************************************************************)
(* Bounds of the model.                                                    *)
(***************************************************************************)
\* longest banner, counted in fragments of Fragments
MaxFrags == 4
\* most lines in one host source
MaxLines == 1
\* most words on the command line being completed
MaxWords == 3
\* cap on the per-builder computation counters
MaxRuns == 2

(***************************************************************************)
(* Python str / dict primitives used by the source.                        *)
(***************************************************************************)
\* code points 32..95, then 97..126
AsciiLow == <<" ","!","\"","#","$","%","&","'","(",")","*","+",",","-",".","/","0","1","2","3","4","5","6","7","8","9",":",";","<","=",">","?","@","A","B","C","D","E","F","G","H","I","J","K","L","M","N","O","P","Q","R","S","T","U","V","W","X","Y","Z","[","\\","]","^","_">>

AsciiLetters == <<"a","b","c","d","e","f","g","h","i","j","k","l","m","n","o","p","q","r","s","t","u","v","w","x","y","z","{","|","}","~">>

\* code point of a character (str comparison in sorted() is by code point)
Ord(c) ==
    IF c = "\t" THEN 9
    ELSE IF c = "\n" THEN 10
    ELSE IF \E i \in 1..Len(AsciiLow) : AsciiLow[i] = c
    THEN 31 + (CHOOSE i \in 1..Len(AsciiLow) : AsciiLow[i] = c)
    ELSE 96 + (CHOOSE i \in 1..Len(AsciiLetters) : AsciiLetters[i] = c)

\* s[i]
At(s, i) == s[i + 1]

\* s[i:j] for 0 <= i, j
Slice(s, i, j) ==
    LET hi == IF j > Len(s) THEN Len(s) ELSE j
    IN  IF i >= hi THEN <<>> ELSE SubSeq(s, i + 1, hi)

\* s.startswith(prefix)
startswith(s, prefix) ==
    /\ Len(prefix) <= Len(s)
    /\ \A i \in 1..Len(prefix) : s[i] = prefix[i]

\* s.find(ch, pos): least index >= pos holding ch, else -1
find(s, ch, pos) ==
    LET hits == {i \in pos..(Len(s) - 1) : At(s, i) = ch}
    IN  IF hits = {} THEN -1
        ELSE CHOOSE i \in hits : \A j \in hits : i <= j

\* ch in s
contains(s, ch) == \E i \in 1..Len(s) : s[i] = ch

\* the whitespace of str.strip and str.split
IsSpace(c) == c \in {" ", "\t", "\n", "\r", "\f"}

IsDigit(c) == c \in {"0","1","2","3","4","5","6","7","8","9"}

\* s.strip()
strip(s) ==
    LET keep == {i \in 1..Len(s) : ~IsSpace(s[i])}
    IN  IF keep = {} THEN <<>>
        ELSE LET lo == CHOOSE i \in keep : \A j \in keep : i <= j
                 hi == CHOOSE i \in keep : \A j \in keep : j <= i
             IN  SubSeq(s, lo, hi)

\* s.split(): the maximal runs of non-whitespace, in order
RECURSIVE split_from(_, _, _, _)
split_from(s, i, cur, acc) ==
    IF i > Len(s)
    THEN IF cur = <<>> THEN acc ELSE Append(acc, cur)
    ELSE IF IsSpace(s[i])
         THEN split_from(s, i + 1, <<>>, IF cur = <<>> THEN acc ELSE Append(acc, cur))
         ELSE split_from(s, i + 1, Append(cur, s[i]), acc)

split(s) == split_from(s, 1, <<>>, <<>>)

\* a < b for str
StrLess(a, b) ==
    \/ /\ Len(a) < Len(b)
       /\ \A i \in 1..Len(a) : a[i] = b[i]
    \/ \E k \in 1..Len(a) :
          /\ k <= Len(b)
          /\ \A i \in 1..(k - 1) : a[i] = b[i]
          /\ Ord(a[k]) < Ord(b[k])

\* sorted(S) for a set of str
RECURSIVE sorted(_)
sorted(S) ==
    IF S = {} THEN <<>>
    ELSE LET m == CHOOSE x \in S : \A y \in S \ {x} : StrLess(x, y)
         IN  <<m>> \o sorted(S \ {m})

EmptyDict == [k \in {} |-> <<>>]

\* d[k] = v
DictSet(d, k, v) == [x \in DOMAIN d \cup {k} |-> IF x = k THEN v ELSE d[x]]

\* d.update(dict.fromkeys(keys, empty str))
update_fromkeys(d, keys) ==
    [x \in DOMAIN d \cup {<<keys[i]>> : i \in 1..Len(keys)} |->
        IF \E i \in 1..Len(keys) : x = <<keys[i]>> THEN <<>> ELSE d[x]]

\* d.get(k): None is modelled as the empty (falsy) str
DictGet(d, k) == IF k \in DOMAIN d THEN d[k] ELSE <<>>

BoundedSeq(S, n) == UNION {[1..k -> S] : k \in 0..n}

RECURSIVE Concat(_)
Concat(ss) == IF ss = <<>> THEN <<>> ELSE Head(ss) \o Concat(Tail(ss))

(***************************************************************************)
(* ssh_options: the bracket scan of the usage banner.                      *)
(***************************************************************************)
\* Mutant: the first closing bracket ends the group, whatever the depth.
ssh_options_close_nodepth(raw, epos, num) == find(raw, "]", epos + 1)

\* The inner loop, lines 88-92: the index of the bracket that brings num to
\* 0, or -1 when raw[epos] is read at epos = len(raw) (IndexError).
RECURSIVE ssh_options_close(_, _, _)
ssh_options_close(raw, epos, num) ==
    IF num <= 0 THEN epos
    ELSE LET e == epos + 1
         IN  IF e >= Len(raw) THEN -1
             ELSE IF At(raw, e) \notin {"[", "]"}
                  THEN ssh_options_close(raw, e, num)
                  ELSE ssh_options_close(raw, e,
                           num + (IF At(raw, e) = "[" THEN 1 ELSE -1))

\* Mutant: a described flag already in the table is kept by a later cluster.
ssh_options_store_setdefault(ans, q) ==
    IF Len(q) < 2 \/ q[1] # "-" THEN ans
    ELSE IF contains(q, " ")
         THEN LET sp == find(q, " ", 0)
              IN  DictSet(ans, Slice(q, 1, sp), Slice(q, sp + 1, Len(q)))
         ELSE [x \in DOMAIN ans \cup {<<q[i]>> : i \in 2..Len(q)} |->
                  IF x \in DOMAIN ans THEN ans[x] ELSE <<>>]

\* Lines 95-101: what one bracketed group q does to the table.
ssh_options_store(ans, q) ==
    IF Len(q) < 2 \/ q[1] # "-" THEN ans
    ELSE IF contains(q, " ")
         THEN LET sp == find(q, " ", 0)
              IN  DictSet(ans, Slice(q, 1, sp), Slice(q, sp + 1, Len(q)))
         ELSE update_fromkeys(ans, Slice(q, 1, Len(q)))

\* The outer loop, lines 82-102.
RECURSIVE ssh_options_scan(_, _, _)
ssh_options_scan(raw, pos, ans) ==
    LET p == find(raw, "[", pos)
    IN  IF p < 0 THEN [error |-> "", value |-> ans]
        ELSE LET epos == ssh_options_close(raw, p, 1)
             IN  IF epos < 0
                 THEN [error |-> "IndexError", value |-> EmptyDict]
                 ELSE ssh_options_scan(raw, epos,
                          ssh_options_store(ans, Slice(raw, p + 1, epos)))

\* Lines 76-102, the body of ssh_options. ssh.status: "ok" (stderr is the decoded banner), "OSError"
\* (Popen cannot launch ssh), "UnicodeDecodeError" (stderr is not UTF-8).
ssh_options_body(ssh) ==
    IF ssh.status = "OSError"
    THEN [error |-> "OSError", value |-> EmptyDict]
    ELSE IF ssh.status = "UnicodeDecodeError"
    THEN [error |-> "UnicodeDecodeError", value |-> EmptyDict]
    ELSE ssh_options_scan(ssh.stderr, 0, EmptyDict)

(***************************************************************************)
(* Line sources and per-format filters.                                    *)
(***************************************************************************)
\* Lines 16-22. A file source is [status, lines]: open() raises OSError
\* (status "OSError") or the file yields its lines, each with its newline.
lines_from_file(src) == IF src.status = "ok" THEN src.lines ELSE <<>>

\* output.splitlines(): the "\n"-terminated pieces, newline dropped
RECURSIVE splitlines_from(_, _, _, _)
splitlines_from(s, i, cur, acc) ==
    IF i > Len(s)
    THEN IF cur = <<>> THEN acc ELSE Append(acc, cur)
    ELSE IF s[i] = "\n"
         THEN splitlines_from(s, i + 1, <<>>, Append(acc, cur))
         ELSE splitlines_from(s, i + 1, Append(cur, s[i]), acc)

splitlines(s) == splitlines_from(s, 1, <<>>, <<>>)

\* Lines 25-30. A command source is [status, output]: check_output raises
\* (cannot launch, non-zero exit) or decode raises, all caught; else the
\* decoded output is split into lines.
lines_from_command(src) ==
    IF src.status = "ok" THEN splitlines(src.output) ELSE <<>>

\* Lines 33-35; pfilter is the filter as a function on the lines.
parts_yielder(lines, pfilter) ==
    Concat([i \in 1..Len(lines) |-> pfilter[lines[i]]])

\* Lines 38-41.
hosts_from_config_lines(line) ==
    LET parts == split(strip(line))
    IN  IF Len(parts) > 1 /\ parts[1] = <<"H","o","s","t">>
        THEN <<parts[2]>> ELSE <<>>

\* re.sub(r':\d+$', '', s): drop a final ':' followed by one or more digits
re_sub_port(s) ==
    LET nondigit == {i \in 1..Len(s) : ~IsDigit(s[i])}
        last == IF nondigit = {} THEN 0
                ELSE CHOOSE i \in nondigit : \A j \in nondigit : j <= i
    IN  IF last >= 1 /\ last < Len(s) /\ s[last] = ":"
        THEN SubSeq(s, 1, last - 1) ELSE s

\* Lines 44-47.
hosts_from_known_hosts(line) ==
    LET parts == split(strip(line))
    IN  IF parts # <<>> THEN <<re_sub_port(parts[1])>> ELSE <<>>

\* Lines 50-59.
hosts_from_hosts(line) ==
    LET l == strip(line)
        parts == split(l)
    IN  IF startswith(l, <<"#">>) THEN <<>>
        ELSE SubSeq(parts, 1, IF Len(parts) > 3 THEN 3 ELSE Len(parts))

Range(s) == {s[i] : i \in 1..Len(s)}

\* Lines 62-67: the tokens of the five sources, in order.
iter_known_hosts(sources) ==
    LET config == lines_from_file(sources.config)
        known == lines_from_file(sources.known_hosts)
        ssh_known == lines_from_file(sources.ssh_known_hosts)
        hosts == lines_from_file(sources.etc_hosts)
        getent == lines_from_command(sources.getent)
    IN     parts_yielder(config,
               [l \in Range(config) |-> hosts_from_config_lines(l)])
        \o parts_yielder(known,
               [l \in Range(known) |-> hosts_from_known_hosts(l)])
        \o parts_yielder(ssh_known,
               [l \in Range(ssh_known) |-> hosts_from_known_hosts(l)])
        \o parts_yielder(hosts, [l \in Range(hosts) |-> hosts_from_hosts(l)])
        \o parts_yielder(getent, [l \in Range(getent) |-> hosts_from_hosts(l)])

\* Mutant: only the wildcard is filtered, bracketed tokens are kept.
known_hosts_body_keeps_brackets(sources) ==
    sorted({x \in Range(iter_known_hosts(sources)) : ~contains(x, "*")})

\* Line 72, the body of known_hosts.
known_hosts_body(sources) ==
    sorted({x \in Range(iter_known_hosts(sources)) :
               ~contains(x, "*") /\ ~contains(x, "[")})

(***************************************************************************)
(* run_once (kitty.types): the decorated function runs when no result is   *)
(* cached; its result is cached when it returns. An exception leaves the   *)
(* cache as it was and propagates.                                         *)
(***************************************************************************)
Uncached == [computed |-> FALSE, value |-> <<>>]

run_once(cache, result) ==
    IF cache.computed
    THEN [cache |-> cache, error |-> "", value |-> cache.value, ran |-> 0]
    ELSE IF result.error # ""
    THEN [cache |-> cache, error |-> result.error, value |-> <<>>, ran |-> 1]
    ELSE [cache |-> [computed |-> TRUE, value |-> result.value],
          error |-> "", value |-> result.value, ran |-> 1]

\* Mutant: known_hosts without its decorator, computed on every call.
known_hosts_undecorated(cache, sources) ==
    [cache |-> [computed |-> TRUE, value |-> known_hosts_body(sources)],
     error |-> "", value |-> known_hosts_body(sources), ran |-> 1]

\* Lines 70-72: known_hosts as decorated with run_once.
known_hosts(cache, sources) ==
    run_once(cache, [error |-> "", value |-> known_hosts_body(sources)])

\* Lines 75-102: ssh_options as decorated with run_once.
ssh_options(cache, ssh) == run_once(cache, ssh_options_body(ssh))

(***************************************************************************)
(* option_help_map: the static description table.                          *)
(***************************************************************************)
\* Lines 109-155: the literal, split into lines.
option_help_lines == <<
    <<>>,
    <<"-","4"," "," ","-","-"," ","f","o","r","c","e"," ","s","s","h"," ","t","o"," ","u","s","e"," ","I","P","v","4"," ","a","d","d","r","e","s","s","e","s"," ","o","n","l","y">>,
    <<"-","6"," "," ","-","-"," ","f","o","r","c","e"," ","s","s","h"," ","t","o"," ","u","s","e"," ","I","P","v","6"," ","a","d","d","r","e","s","s","e","s"," ","o","n","l","y">>,
    <<"-","a"," "," ","-","-"," ","d","i","s","a","b","l","e"," ","f","o","r","w","a","r","d","i","n","g"," ","o","f"," ","a","u","t","h","e","n","t","i","c","a","t","i","o","n"," ","a","g","e","n","t"," ","c","o","n","n","e","c","t","i","o","n">>,
    <<"-","A"," "," ","-","-"," ","e","n","a","b","l","e"," ","f","o","r","w","a","r","d","i","n","g"," ","o","f"," ","t","h","e"," ","a","u","t","h","e","n","t","i","c","a","t","i","o","n"," ","a","g","e","n","t"," ","c","o","n","n","e","c","t","i","o","n">>,
    <<"-","B"," "," ","-","-"," ","b","i","n","d"," ","t","o"," ","s","p","e","c","i","f","i","e","d"," ","i","n","t","e","r","f","a","c","e"," ","b","e","f","o","r","e"," ","a","t","t","e","m","p","t","i","n","g"," ","t","o"," ","c","o","n","n","e","c","t">>,
    <<"-","b"," "," ","-","-"," ","s","p","e","c","i","f","y"," ","i","n","t","e","r","f","a","c","e"," ","t","o"," ","t","r","a","n","s","m","i","t"," ","o","n">>,
    <<"-","C"," "," ","-","-"," ","c","o","m","p","r","e","s","s"," ","d","a","t","a">>,
    <<"-","c"," "," ","-","-"," ","s","e","l","e","c","t"," ","e","n","c","r","y","p","t","i","o","n"," ","c","i","p","h","e","r">>,
    <<"-","D"," "," ","-","-"," ","s","p","e","c","i","f","y"," ","a"," ","d","y","n","a","m","i","c"," ","p","o","r","t"," ","f","o","r","w","a","r","d","i","n","g">>,
    <<"-","E"," "," ","-","-"," ","a","p","p","e","n","d"," ","l","o","g"," ","o","u","t","p","u","t"," ","t","o"," ","f","i","l","e"," ","i","n","s","t","e","a","d"," ","o","f"," ","s","t","d","e","r","r">>,
    <<"-","e"," "," ","-","-"," ","s","e","t"," ","e","s","c","a","p","e"," ","c","h","a","r","a","c","t","e","r">>,
    <<"-","f"," "," ","-","-"," ","g","o"," ","t","o"," ","b","a","c","k","g","r","o","u","n","d">>,
    <<"-","F"," "," ","-","-"," ","s","p","e","c","i","f","y"," ","a","l","t","e","r","n","a","t","e"," ","c","o","n","f","i","g"," ","f","i","l","e">>,
    <<"-","g"," "," ","-","-"," ","a","l","l","o","w"," ","r","e","m","o","t","e"," ","h","o","s","t","s"," ","t","o"," ","c","o","n","n","e","c","t"," ","t","o"," ","l","o","c","a","l"," ","f","o","r","w","a","r","d","e","d"," ","p","o","r","t","s">>,
    <<"-","G"," "," ","-","-"," ","o","u","t","p","u","t"," ","c","o","n","f","i","g","u","r","a","t","i","o","n"," ","a","n","d"," ","e","x","i","t">>,
    <<"-","i"," "," ","-","-"," ","s","e","l","e","c","t"," ","i","d","e","n","t","i","t","y"," ","f","i","l","e">>,
    <<"-","I"," "," ","-","-"," ","s","p","e","c","i","f","y"," ","s","m","a","r","t","c","a","r","d"," ","d","e","v","i","c","e">>,
    <<"-","J"," "," ","-","-"," ","c","o","n","n","e","c","t"," ","v","i","a"," ","a"," ","j","u","m","p"," ","h","o","s","t">>,
    <<"-","k"," "," ","-","-"," ","d","i","s","a","b","l","e"," ","f","o","r","w","a","r","d","i","n","g"," ","o","f"," ","G","S","S","A","P","I"," ","c","r","e","d","e","n","t","i","a","l","s">>,
    <<"-","K"," "," ","-","-"," ","e","n","a","b","l","e"," ","G","S","S","A","P","I","-","b","a","s","e","d"," ","a","u","t","h","e","n","t","i","c","a","t","i","o","n"," ","a","n","d"," ","f","o","r","w","a","r","d","i","n","g">>,
    <<"-","L"," "," ","-","-"," ","s","p","e","c","i","f","y"," ","l","o","c","a","l"," ","p","o","r","t"," ","f","o","r","w","a","r","d","i","n","g">>,
    <<"-","l"," "," ","-","-"," ","s","p","e","c","i","f","y"," ","l","o","g","i","n"," ","n","a","m","e">>,
    <<"-","M"," "," ","-","-"," ","m","a","s","t","e","r"," ","m","o","d","e"," ","f","o","r"," ","c","o","n","n","e","c","t","i","o","n"," ","s","h","a","r","i","n","g">>,
    <<"-","m"," "," ","-","-"," ","s","p","e","c","i","f","y"," ","m","a","c"," ","a","l","g","o","r","i","t","h","m","s">>,
    <<"-","N"," "," ","-","-"," ","d","o","n","'","t"," ","e","x","e","c","u","t","e"," ","a"," ","r","e","m","o","t","e"," ","c","o","m","m","a","n","d">>,
    <<"-","n"," "," ","-","-"," ","r","e","d","i","r","e","c","t"," ","s","t","d","i","n"," ","f","r","o","m"," ","/","d","e","v","/","n","u","l","l">>,
    <<"-","O"," "," ","-","-"," ","c","o","n","t","r","o","l"," ","a","n"," ","a","c","t","i","v","e"," ","c","o","n","n","e","c","t","i","o","n"," ","m","u","l","t","i","p","l","e","x","i","n","g"," ","m","a","s","t","e","r"," ","p","r","o","c","e","s","s">>,
    <<"-","o"," "," ","-","-"," ","s","p","e","c","i","f","y"," ","e","x","t","r","a"," ","o","p","t","i","o","n","s">>,
    <<"-","p"," "," ","-","-"," ","s","p","e","c","i","f","y"," ","p","o","r","t"," ","o","n"," ","r","e","m","o","t","e"," ","h","o","s","t">>,
    <<"-","P"," "," ","-","-"," ","u","s","e"," ","n","o","n"," ","p","r","i","v","i","l","e","g","e","d"," ","p","o","r","t">>,
    <<"-","Q"," "," ","-","-"," ","q","u","e","r","y"," ","p","a","r","a","m","e","t","e","r","s">>,
    <<"-","q"," "," ","-","-"," ","q","u","i","e","t"," ","o","p","e","r","a","t","i","o","n">>,
    <<"-","R"," "," ","-","-"," ","s","p","e","c","i","f","y"," ","r","e","m","o","t","e"," ","p","o","r","t"," ","f","o","r","w","a","r","d","i","n","g">>,
    <<"-","s"," "," ","-","-"," ","i","n","v","o","k","e"," ","s","u","b","s","y","s","t","e","m">>,
    <<"-","S"," "," ","-","-"," ","s","p","e","c","i","f","y"," ","l","o","c","a","t","i","o","n"," ","o","f"," ","c","o","n","t","r","o","l"," ","s","o","c","k","e","t"," ","f","o","r"," ","c","o","n","n","e","c","t","i","o","n"," ","s","h","a","r","i","n","g">>,
    <<"-","T"," "," ","-","-"," ","d","i","s","a","b","l","e"," ","p","s","e","u","d","o","-","t","t","y"," ","a","l","l","o","c","a","t","i","o","n">>,
    <<"-","t"," "," ","-","-"," ","f","o","r","c","e"," ","p","s","e","u","d","o","-","t","t","y"," ","a","l","l","o","c","a","t","i","o","n">>,
    <<"-","V"," "," ","-","-"," ","s","h","o","w"," ","v","e","r","s","i","o","n"," ","n","u","m","b","e","r">>,
    <<"-","v"," "," ","-","-"," ","v","e","r","b","o","s","e"," ","m","o","d","e"," ","(","m","u","l","t","i","p","l","e"," ","i","n","c","r","e","a","s","e"," ","v","e","r","b","o","s","i","t","y",","," ","u","p"," ","t","o"," ","3",")">>,
    <<"-","W"," "," ","-","-"," ","f","o","r","w","a","r","d"," ","s","t","a","n","d","a","r","d"," ","i","n","p","u","t"," ","a","n","d"," ","o","u","t","p","u","t"," ","t","o"," ","h","o","s","t">>,
    <<"-","w"," "," ","-","-"," ","r","e","q","u","e","s","t"," ","t","u","n","n","e","l"," ","d","e","v","i","c","e"," ","f","o","r","w","a","r","d","i","n","g">>,
    <<"-","x"," "," ","-","-"," ","d","i","s","a","b","l","e"," ","X","1","1"," ","f","o","r","w","a","r","d","i","n","g">>,
    <<"-","X"," "," ","-","-"," ","e","n","a","b","l","e"," ","(","u","n","t","r","u","s","t","e","d",")"," ","X","1","1"," ","f","o","r","w","a","r","d","i","n","g">>,
    <<"-","Y"," "," ","-","-"," ","e","n","a","b","l","e"," ","t","r","u","s","t","e","d"," ","X","1","1"," ","f","o","r","w","a","r","d","i","n","g">>,
    <<"-","y"," "," ","-","-"," ","s","e","n","d"," ","l","o","g"," ","i","n","f","o"," ","v","i","a"," ","s","y","s","l","o","g"," ","i","n","s","t","e","a","d"," ","o","f"," ","s","t","d","e","r","r">>>>

\* line.split(maxsplit=2) of a stripped line of three or more fields:
\* the first two fields and the rest of the line after them
split_maxsplit2(line) ==
    LET parts == split(line)
        gap1 == CHOOSE i \in 1..Len(line) : IsSpace(line[i])
        f2 == CHOOSE i \in gap1..Len(line) : ~IsSpace(line[i])
        gap2 == CHOOSE i \in f2..Len(line) : IsSpace(line[i])
        f3 == CHOOSE i \in gap2..Len(line) : ~IsSpace(line[i])
    IN  <<parts[1], parts[2], SubSeq(line, f3, Len(line))>>

\* Lines 107-161, the body of option_help_map: every non-empty stripped
\* line sets ans[parts[0]] = parts[2], a later line overwriting an earlier.
option_help_map_body ==
    LET lines == option_help_lines
        used == {i \in 1..Len(lines) : strip(lines[i]) # <<>>}
        parts(i) == split_maxsplit2(strip(lines[i]))
        last(k) == CHOOSE i \in used :
                      /\ parts(i)[1] = k
                      /\ \A j \in used : parts(j)[1] = k => j <= i
    IN  [k \in {parts(i)[1] : i \in used} |-> parts(last(k))[3]]

\* Lines 106-161: option_help_map as decorated with run_once.
option_help_map(cache) ==
    run_once(cache, [error |-> "", value |-> option_help_map_body])

(***************************************************************************)
(* The completion dispatcher.                                              *)
(***************************************************************************)
NoCall == [fn |-> "", args |-> <<>>]

\* Lines 185-198: the tags of the words and the final expecting_arg.
RECURSIVE classify_from(_, _, _, _, _)
classify_from(ws, options, i, expecting, tags) ==
    IF i > Len(ws) THEN [types |-> tags, expecting_arg |-> expecting]
    ELSE IF expecting
    THEN classify_from(ws, options, i + 1, FALSE, [tags EXCEPT ![i] = "arg"])
    ELSE IF startswith(ws[i], <<"-">>)
    THEN classify_from(ws, options, i + 1,
                       Len(ws[i]) = 2 /\ DictGet(options, <<At(ws[i], 1)>>) # <<>>,
                       [tags EXCEPT ![i] = "option"])
    ELSE [types |-> [tags EXCEPT ![i] = "destination"],
          expecting_arg |-> expecting]

\* Mutant: no break after the destination, later words are classified too.
RECURSIVE classify_nobreak_from(_, _, _, _, _)
classify_nobreak_from(ws, options, i, expecting, tags) ==
    IF i > Len(ws) THEN [types |-> tags, expecting_arg |-> expecting]
    ELSE IF expecting
    THEN classify_nobreak_from(ws, options, i + 1, FALSE,
                               [tags EXCEPT ![i] = "arg"])
    ELSE IF startswith(ws[i], <<"-">>)
    THEN classify_nobreak_from(ws, options, i + 1,
                       Len(ws[i]) = 2 /\ DictGet(options, <<At(ws[i], 1)>>) # <<>>,
                       [tags EXCEPT ![i] = "option"])
    ELSE classify_nobreak_from(ws, options, i + 1, FALSE,
                               [tags EXCEPT ![i] = "destination"])

classify_nobreak(ws, options) ==
    classify_nobreak_from(ws, options, 1, FALSE, [i \in 1..Len(ws) |-> ""])

\* Mutant: any flag word whose second character takes an argument expects
\* one, whatever the word's length.
RECURSIVE classify_anylen_from(_, _, _, _, _)
classify_anylen_from(ws, options, i, expecting, tags) ==
    IF i > Len(ws) THEN [types |-> tags, expecting_arg |-> expecting]
    ELSE IF expecting
    THEN classify_anylen_from(ws, options, i + 1, FALSE,
                              [tags EXCEPT ![i] = "arg"])
    ELSE IF startswith(ws[i], <<"-">>)
    THEN classify_anylen_from(ws, options, i + 1,
                       Len(ws[i]) >= 2 /\ DictGet(options, <<At(ws[i], 1)>>) # <<>>,
                       [tags EXCEPT ![i] = "option"])
    ELSE [types |-> [tags EXCEPT ![i] = "destination"],
          expecting_arg |-> expecting]

classify_anylen(ws, options) ==
    classify_anylen_from(ws, options, 1, FALSE, [i \in 1..Len(ws) |-> ""])

classify(ws, options) ==
    classify_from(ws, options, 1, FALSE, [i \in 1..Len(ws) |-> ""])

\* Mutant: a new word is always completed as a destination.
complete_dispatch_no_arg(ws, nw, cl) ==
    IF nw THEN [fn |-> "complete_destination", args |-> <<>>]
    ELSE IF ws = <<>> THEN NoCall
    ELSE IF cl.types[Len(ws)] = "arg" /\ Len(ws) > 1
    THEN [fn |-> "complete_arg", args |-> <<ws[Len(ws) - 1], ws[Len(ws)]>>]
    ELSE IF cl.types[Len(ws)] = "destination"
    THEN [fn |-> "complete_destination", args |-> <<ws[Len(ws)]>>]
    ELSE IF cl.types[Len(ws)] = "option"
    THEN [fn |-> "complete_option", args |-> <<ws[Len(ws)]>>]
    ELSE NoCall

\* Lines 199-210: the producer complete calls, with its arguments after ans.
complete_dispatch(ws, nw, cl) ==
    IF nw
    THEN IF ws # <<>> /\ cl.expecting_arg
         THEN [fn |-> "complete_arg", args |-> <<ws[Len(ws)]>>]
         ELSE [fn |-> "complete_destination", args |-> <<>>]
    ELSE IF ws = <<>> THEN NoCall
    ELSE IF cl.types[Len(ws)] = "arg" /\ Len(ws) > 1
    THEN [fn |-> "complete_arg", args |-> <<ws[Len(ws) - 1], ws[Len(ws)]>>]
    ELSE IF cl.types[Len(ws)] = "destination"
    THEN [fn |-> "complete_destination", args |-> <<ws[Len(ws)]>>]
    ELSE IF cl.types[Len(ws)] = "option"
    THEN [fn |-> "complete_option", args |-> <<ws[Len(ws)]>>]
    ELSE NoCall

\* Lines 165-166: complete_arg writes nothing.
complete_arg(groups, args) == groups

\* Lines 169-171; hosts is the value known_hosts() returned.
complete_destination(groups, hosts, args) ==
    LET prefix == IF args = <<>> THEN <<>> ELSE args[1]
    IN  DictSet(groups, "remote host name",
                [k \in {h \in Range(hosts) : startswith(h, prefix)} |-> <<>>])

\* Mutant: the bare dash is treated as a started flag combination.
complete_option_strict(groups, hm, args) ==
    LET prefix == IF args = <<>> THEN <<"-">> ELSE args[1]
    IN  IF Len(prefix) < 1
        THEN DictSet(groups, "option",
                     [k \in {x \in DOMAIN hm : startswith(x, prefix)} |-> hm[k]])
        ELSE DictSet(groups, "option", [k \in {prefix} |-> <<>>])

\* Lines 174-180; hm is the value option_help_map() returned.
complete_option(groups, hm, args) ==
    LET prefix == IF args = <<>> THEN <<"-">> ELSE args[1]
    IN  IF Len(prefix) <= 1
        THEN DictSet(groups, "option",
                     [k \in {x \in DOMAIN hm : startswith(x, prefix)} |-> hm[k]])
        ELSE DictSet(groups, "option", [k \in {prefix} |-> <<>>])

\* words a request is made of
Vocabulary == {<<"-">>, <<"-","p">>, <<"-","p","q">>, <<"a">>}

\* Lines 183-210: one completion request, complete(ans, ws, nw), with the
\* builders it calls.
Complete(ws, nw) ==
    /\ pc = "idle"
    /\ runs.known_hosts < MaxRuns
    /\ runs.ssh_options < MaxRuns
    /\ runs.option_help_map < MaxRuns
    /\ words' = ws
    /\ new_word' = nw
    /\ UNCHANGED env
    /\ LET o == ssh_options(ssh_options_cache, env.ssh)
           cl == classify(ws, o.value)
           d == complete_dispatch(ws, nw, cl)
           kh == IF d.fn = "complete_destination"
                 THEN known_hosts(known_hosts_cache, env.sources)
                 ELSE [cache |-> known_hosts_cache, error |-> "",
                       value |-> <<>>, ran |-> 0]
           hm == IF d.fn = "complete_option"
                 THEN option_help_map(option_help_cache)
                 ELSE [cache |-> option_help_cache, error |-> "",
                       value |-> <<>>, ran |-> 0]
       IN  IF o.error # ""
           THEN /\ pc' = "raised"
                /\ error' = o.error
                /\ ssh_options_cache' = o.cache
                /\ runs' = [runs EXCEPT !.ssh_options = @ + o.ran]
                /\ types' = <<>>
                /\ expecting_arg' = FALSE
                /\ UNCHANGED <<known_hosts_cache, option_help_cache,
                               match_groups, called>>
           ELSE /\ pc' = "returned"
                /\ error' = ""
                /\ ssh_options_cache' = o.cache
                /\ known_hosts_cache' = kh.cache
                /\ option_help_cache' = hm.cache
                /\ runs' = [known_hosts |-> runs.known_hosts + kh.ran,
                            ssh_options |-> runs.ssh_options + o.ran,
                            option_help_map |-> runs.option_help_map + hm.ran]
                /\ types' = cl.types
                /\ expecting_arg' = cl.expecting_arg
                /\ called' = d
                /\ match_groups' =
                       IF d.fn = "complete_arg"
                       THEN complete_arg(match_groups, d.args)
                       ELSE IF d.fn = "complete_destination"
                       THEN complete_destination(match_groups, kh.value, d.args)
                       ELSE IF d.fn = "complete_option"
                       THEN complete_option(match_groups, hm.value, d.args)
                       ELSE match_groups

(***************************************************************************)
(* Environments: the contents of the host sources and the ssh banner.      *)
(***************************************************************************)
ConfigLines == <<
    <<"H","o","s","t"," ","b","\n">>,
    <<"H","o","s","t"," ","*","\n">>,
    <<" "," ","H","o","s","t","N","a","m","e"," ","x","\n">>>>

KnownHostsLines == <<
    <<"a",":","2","2"," ","k","\n">>,
    <<"[","b","]",":","2","2"," ","k","\n">>>>

SshKnownHostsLines == <<
    <<"b","\n">>,
    <<"a",":","x"," ","k","\n">>>>

EtcHostsLines == <<
    <<"#"," ","1"," ","c","\n">>,
    <<"1"," ","a"," ","b"," ","c","\n">>>>

GetentLines == <<
    <<"2"," ","b","\n">>,
    <<"1"," ","a","\n">>>>

FileSources(pool, n) ==
    {[status |-> "OSError", lines |-> <<>>]}
    \cup {[status |-> "ok", lines |-> ls] : ls \in BoundedSeq(Range(pool), n)}

CommandSources(pool, n) ==
    {[status |-> st, output |-> <<>>] :
        st \in {"OSError", "CalledProcessError", "UnicodeDecodeError"}}
    \cup {[status |-> "ok", output |-> Concat(ls)] : ls \in BoundedSeq(Range(pool), n)}

\* every content of the five sources up to MaxLines lines each
HostSources ==
    [config : FileSources(ConfigLines, MaxLines),
     known_hosts : FileSources(KnownHostsLines, MaxLines),
     ssh_known_hosts : FileSources(SshKnownHostsLines, MaxLines),
     etc_hosts : FileSources(EtcHostsLines, MaxLines),
     getent : CommandSources(GetentLines, MaxLines)]

\* the sources of the completion requests: each is unavailable or holds
\* its whole pool
WholeSources ==
    [config : {[status |-> "OSError", lines |-> <<>>],
               [status |-> "ok", lines |-> ConfigLines]},
     known_hosts : {[status |-> "OSError", lines |-> <<>>],
                    [status |-> "ok", lines |-> KnownHostsLines]},
     ssh_known_hosts : {[status |-> "OSError", lines |-> <<>>],
                        [status |-> "ok", lines |-> SshKnownHostsLines]},
     etc_hosts : {[status |-> "OSError", lines |-> <<>>],
                  [status |-> "ok", lines |-> EtcHostsLines]},
     getent : {[status |-> "CalledProcessError", output |-> <<>>],
               [status |-> "ok", output |-> Concat(GetentLines)]}]

NoSources ==
    [config |-> [status |-> "OSError", lines |-> <<>>],
     known_hosts |-> [status |-> "OSError", lines |-> <<>>],
     ssh_known_hosts |-> [status |-> "OSError", lines |-> <<>>],
     etc_hosts |-> [status |-> "OSError", lines |-> <<>>],
     getent |-> [status |-> "OSError", output |-> <<>>]]

\* pieces a banner is assembled from
Fragments == {
    <<"[">>,
    <<"]">>,
    <<"[","-","a">>,
    <<" ">>,
    <<"b">>,
    <<"[","-","a"," ","b","]">>}

\* the banner of the specification's example
ExampleBanner == 
    <<"u","s","a","g","e",":"," ","s","s","h"," ","[","-","4","6","A","a","C","]"," ","[","-","b"," ","b","i","n","d","_","a","d","d","r","e","s","s","]">>

Banners ==
    {Concat(fs) : fs \in BoundedSeq(Fragments, MaxFrags)} \cup {ExampleBanner}

\* banners of the completion requests: p takes an argument, or does not
ArgBanner == <<"[","-","4","]"," ","[","-","p"," ","p","o","r","t","]">>

NoArgBanner == <<"[","-","4","p","]">>

SshFailures ==
    {[status |-> st, stderr |-> <<>>] : st \in {"OSError", "UnicodeDecodeError"}}

SshOf(banners) == {[status |-> "ok", stderr |-> b] : b \in banners} \cup SshFailures

(***************************************************************************)
(* Initial states: nothing cached, no request in progress.                 *)
(***************************************************************************)
InitIn(envs) ==
    /\ env \in envs
    /\ known_hosts_cache = Uncached
    /\ ssh_options_cache = Uncached
    /\ option_help_cache = Uncached
    /\ runs = [known_hosts |-> 0, ssh_options |-> 0, option_help_map |-> 0]
    /\ pc = "idle"
    /\ error = ""
    /\ words = <<>>
    /\ new_word = FALSE
    /\ types = <<>>
    /\ expecting_arg = FALSE
    /\ match_groups = EmptyDict
    /\ called = NoCall

\* The caller starts another request with a fresh result collector. An
\* exception that left the previous request is caught nowhere: the process
\* has ended.
NewRequest ==
    /\ pc = "returned"
    /\ pc' = "idle"
    /\ words' = <<>>
    /\ new_word' = FALSE
    /\ types' = <<>>
    /\ expecting_arg' = FALSE
    /\ match_groups' = EmptyDict
    /\ called' = NoCall
    /\ UNCHANGED <<env, known_hosts_cache, ssh_options_cache,
                   option_help_cache, runs, error>>

\* A direct call of known_hosts(), lines 70-72.
call_known_hosts ==
    /\ pc = "idle"
    /\ runs.known_hosts < MaxRuns
    /\ LET r == known_hosts(known_hosts_cache, env.sources)
       IN  /\ known_hosts_cache' = r.cache
           /\ runs' = [runs EXCEPT !.known_hosts = @ + r.ran]
           /\ error' = r.error
           /\ pc' = IF r.error = "" THEN "returned" ELSE "raised"
    /\ UNCHANGED <<env, ssh_options_cache, option_help_cache, words,
                   new_word, types, expecting_arg, match_groups, called>>

\* A direct call of ssh_options(), lines 75-102.
call_ssh_options ==
    /\ pc = "idle"
    /\ runs.ssh_options < MaxRuns
    /\ LET r == ssh_options(ssh_options_cache, env.ssh)
       IN  /\ ssh_options_cache' = r.cache
           /\ runs' = [runs EXCEPT !.ssh_options = @ + r.ran]
           /\ error' = r.error
           /\ pc' = IF r.error = "" THEN "returned" ELSE "raised"
    /\ UNCHANGED <<env, known_hosts_cache, option_help_cache, words,
                   new_word, types, expecting_arg, match_groups, called>>

InitHosts ==
    InitIn([sources : HostSources, ssh : {[status |-> "ok", stderr |-> ArgBanner]}])

NextHosts == call_known_hosts \/ NewRequest

SpecHosts == InitHosts /\ [][NextHosts]_vars

InitOptions == InitIn([sources : {NoSources}, ssh : SshOf(Banners)])

NextOptions == call_ssh_options \/ NewRequest

SpecOptions == InitOptions /\ [][NextOptions]_vars

Init == InitIn([sources : WholeSources, ssh : SshOf({ArgBanner, NoArgBanner})])

Next ==
    \/ \E ws \in BoundedSeq(Vocabulary, MaxWords), nw \in BOOLEAN : Complete(ws, nw)
    \/ NewRequest

Spec == Init /\ [][Next]_vars

(***************************************************************************)
(* Properties of the dispatcher (specification Spec).                      *)
(***************************************************************************)
Tags == {"option", "arg", "destination"}

Last(ws) == ws[Len(ws)]

\* the word before word i set expecting_arg: tagged option, a dash plus
\* one character, and that character has a non-empty value in the table
SetsExpecting(i) ==
    /\ i > 1
    /\ types[i - 1] = "option"
    /\ Len(words[i - 1]) = 2
    /\ words[i - 1][1] = "-"
    /\ <<words[i - 1][2]>> \in DOMAIN ssh_options_cache.value
    /\ ssh_options_cache.value[<<words[i - 1][2]>>] # <<>>

\* the tag the rule of the dispatcher gives word i
RuleTag(i) ==
    IF SetsExpecting(i) THEN "arg"
    ELSE IF words[i] # <<>> /\ words[i][1] = "-" THEN "option"
    ELSE "destination"

AfterDestination(i) == \E j \in 1..(i - 1) : types[j] = "destination"

\* the group complete_destination writes for a prefix
HostGroup(prefix) ==
    [k \in {known_hosts_cache.value[i] : i \in
               {j \in 1..Len(known_hosts_cache.value) :
                   /\ Len(prefix) <= Len(known_hosts_cache.value[j])
                   /\ SubSeq(known_hosts_cache.value[j], 1, Len(prefix)) = prefix}}
        |-> <<>>]

DestinationLast ==
    /\ pc = "returned"
    /\ ~new_word
    /\ words # <<>>
    /\ types[Len(words)] = "destination"

\* C1 as stated: every word gets the tag of the rule (arg after an
\* argument-taking single flag, else option for a dash word, else
\* destination), and a final destination word yields exactly the known
\* hosts it is a prefix of.
C1_EveryWordTaggedByRule ==
    /\ pc = "returned" => \A i \in 1..Len(words) : types[i] = RuleTag(i)
    /\ DestinationLast =>
          match_groups = [g \in {"remote host name"} |-> HostGroup(Last(words))]

\* C1 amended: the words up to and including the first destination get the
\* tag of the rule, the words after it stay untagged, and a final
\* destination word yields exactly the known hosts it is a prefix of.
C1_TaggedByRuleUpToDestination ==
    /\ pc = "returned" =>
          \A i \in 1..Len(words) :
             types[i] = IF AfterDestination(i) THEN "" ELSE RuleTag(i)
    /\ DestinationLast =>
          /\ known_hosts_cache.computed
          /\ match_groups = [g \in {"remote host name"} |-> HostGroup(Last(words))]

\* C1 witness: option, arg, destination, and hosts offered for the prefix.
C1_Witness ==
    /\ DestinationLast
    /\ types = <<"option", "arg", "destination">>
    /\ match_groups["remote host name"] # EmptyDict
    /\ \E h \in Range(known_hosts_cache.value) :
          h \notin DOMAIN match_groups["remote host name"]

\* C2 as stated: after classification every word carries one of the three
\* tags, the words after the destination included.
C2_EveryWordTagged ==
    pc = "returned" =>
       /\ Len(types) = Len(words)
       /\ \A i \in 1..Len(words) : types[i] \in Tags

\* C2 amended: every word up to and including the first destination
\* carries one of the three tags, and every word after it carries none.
C2_TaggedUpToDestination ==
    pc = "returned" =>
       /\ Len(types) = Len(words)
       /\ \A i \in 1..Len(words) :
             IF AfterDestination(i) THEN types[i] = "" ELSE types[i] \in Tags

\* C2 witness: a word after the destination, left untagged.
C2_Witness ==
    /\ pc = "returned"
    /\ \E i \in 1..Len(words) : \E j \in (i + 1)..Len(words) :
          types[i] = "destination" /\ types[j] = ""

\* C3: with new_word true, a classification that ended expecting an
\* argument dispatches to complete_arg for the last word and writes no
\* group; every other request, the empty one included, sets 'remote host
\* name' to all known hosts.
C3_NewWordDispatch ==
    (pc = "returned" /\ new_word) =>
       IF expecting_arg
       THEN /\ words # <<>>
            /\ types[Len(words)] = "option"
            /\ called = [fn |-> "complete_arg", args |-> <<Last(words)>>]
            /\ match_groups = EmptyDict
       ELSE /\ called.fn = "complete_destination"
            /\ known_hosts_cache.computed
            /\ match_groups =
                  [g \in {"remote host name"} |->
                      [k \in Range(known_hosts_cache.value) |-> <<>>]]

\* C3 witness: a new word after '-p' where p takes an argument.
C3_Witness ==
    /\ pc = "returned"
    /\ new_word
    /\ expecting_arg
    /\ words = <<<<"-", "p">>>>
    /\ match_groups = EmptyDict

\* One step of the process: a builder whose result is cached does not run
\* again and its cached value does not change; no builder has run more
\* than once; a destination completion served from the cache offers the
\* cached hosts.
C6_Step ==
    /\ runs'.known_hosts <= 1 /\ runs'.ssh_options <= 1
    /\ runs'.option_help_map <= 1
    /\ known_hosts_cache.computed =>
          known_hosts_cache' = known_hosts_cache
          /\ runs'.known_hosts = runs.known_hosts
    /\ ssh_options_cache.computed =>
          ssh_options_cache' = ssh_options_cache
          /\ runs'.ssh_options = runs.ssh_options
    /\ option_help_cache.computed =>
          option_help_cache' = option_help_cache
          /\ runs'.option_help_map = runs.option_help_map
    /\ known_hosts_cache'.computed <=> runs'.known_hosts = 1
    /\ option_help_cache'.computed <=> runs'.option_help_map = 1
    /\ ssh_options_cache'.computed => runs'.ssh_options = 1
    /\ (known_hosts_cache.computed /\ pc = "idle" /\ pc' = "returned"
          /\ called'.fn = "complete_destination" /\ called'.args = <<>>) =>
          match_groups' = [g \in {"remote host name"} |->
                              [k \in Range(known_hosts_cache.value) |-> <<>>]]

C8_RequestNeverRaises == pc # "raised"

\* the description the source gives for -p
PortHelp == <<"s","p","e","c","i","f","y"," ","p","o","r","t"," ","o","n"," ","r","e","m","o","t","e"," ","h","o","s","t">>

OptionLast ==
    /\ pc = "returned"
    /\ ~new_word
    /\ words # <<>>
    /\ types[Len(words)] = "option"

\* C9: a final option word writes only the 'option' group; for the bare
\* dash it holds every flag of the static table with its description, for
\* a dash followed by more than one character it holds the typed word only.
C9_OptionGroup ==
    OptionLast =>
       /\ DOMAIN match_groups = {"option"}
       /\ Last(words) = <<"-">> =>
             /\ match_groups["option"] = option_help_cache.value
             /\ Cardinality(DOMAIN match_groups["option"]) = 45
             /\ \A k \in DOMAIN match_groups["option"] :
                   Len(k) = 2 /\ k[1] = "-" /\ match_groups["option"][k] # <<>>
             /\ match_groups["option"][<<"-", "p">>] = PortHelp
       /\ Len(Last(words)) > 2 =>
             /\ DOMAIN match_groups["option"] = {Last(words)}
             /\ match_groups["option"][Last(words)] = <<>>

\* C9 witness: the bare dash offered the whole table.
C9_Witness ==
    /\ OptionLast
    /\ Last(words) = <<"-">>
    /\ Cardinality(DOMAIN match_groups["option"]) = 45

(***************************************************************************)
(* Properties of known_hosts (specification SpecHosts).                    *)
(***************************************************************************)
\* the tokens the five sources produce
Produced == Range(iter_known_hosts(env.sources))

Admissible(x) == \A i \in 1..Len(x) : x[i] # "*" /\ x[i] # "["

\* C4: the tuple known_hosts returns is strictly ascending (so without
\* duplicates), holds no token with '*' or '[', and holds every produced
\* token that has neither.
C4_KnownHostsSortedFiltered ==
    known_hosts_cache.computed =>
       LET t == known_hosts_cache.value
       IN  /\ \A i \in 1..Len(t) : \A j \in (i + 1)..Len(t) :
                 /\ t[i] # t[j]
                 /\ StrLess(t[i], t[j])
           /\ \A i \in 1..Len(t) : Admissible(t[i])
           /\ Range(t) = {x \in Produced : Admissible(x)}

\* C4 witness: the sources repeat a token, yield tokens out of order and
\* yield a wildcard and a bracketed token; two or more hosts are returned.
C4_Witness ==
    /\ known_hosts_cache.computed
    /\ Len(known_hosts_cache.value) >= 2
    /\ Len(iter_known_hosts(env.sources)) > Cardinality(Produced)
    /\ <<"*">> \in Produced
    /\ <<"[", "b", "]">> \in Produced
    /\ \E i \in 1..Len(iter_known_hosts(env.sources)) :
          \E j \in (i + 1)..Len(iter_known_hosts(env.sources)) :
             StrLess(iter_known_hosts(env.sources)[j],
                     iter_known_hosts(env.sources)[i])

(***************************************************************************)
(* Properties of ssh_options (specification SpecOptions).                  *)
(***************************************************************************)
Banner == env.ssh.stderr

\* bracket depth in front of index i; a ']' outside any group is ignored
RECURSIVE Depth(_, _)
Depth(raw, i) ==
    IF i = 0 THEN 0
    ELSE IF At(raw, i - 1) = "[" THEN Depth(raw, i - 1) + 1
    ELSE IF At(raw, i - 1) = "]" /\ Depth(raw, i - 1) > 0 THEN Depth(raw, i - 1) - 1
    ELSE Depth(raw, i - 1)

\* the top-level groups <<s, e>>: opened at depth 0, closed where the
\* depth first returns to 0
TopGroups(raw) ==
    {g \in (0..(Len(raw) - 1)) \X (0..(Len(raw) - 1)) :
        /\ At(raw, g[1]) = "[" /\ Depth(raw, g[1]) = 0
        /\ g[2] > g[1] /\ Depth(raw, g[2] + 1) = 0
        /\ \A e \in (g[1] + 1)..(g[2] - 1) : Depth(raw, e + 1) > 0}

Content(raw, g) == Slice(raw, g[1] + 1, g[2])

Counted(q) == Len(q) >= 2 /\ q[1] = "-"

Described(q) == Counted(q) /\ \E i \in 1..Len(q) : q[i] = " "

Cluster(q) == Counted(q) /\ \A i \in 1..Len(q) : q[i] # " "

FirstSpace(q) == CHOOSE i \in 1..Len(q) : q[i] = " " /\ \A j \in 1..(i - 1) : q[j] # " "

\* the <<key, value>> pairs a group stores
Stores(q) ==
    IF Described(q)
    THEN {<<SubSeq(q, 2, FirstSpace(q) - 1), SubSeq(q, FirstSpace(q) + 1, Len(q))>>}
    ELSE IF Cluster(q) THEN {<<<<q[i]>>, <<>>>> : i \in 2..Len(q)}
    ELSE {}

Keys(raw) == {kv[1] : kv \in UNION {Stores(Content(raw, g)) : g \in TopGroups(raw)}}

\* the last top-level group that stores key k
LastStoring(raw, k) ==
    CHOOSE g \in TopGroups(raw) :
       /\ \E kv \in Stores(Content(raw, g)) : kv[1] = k
       /\ \A h \in TopGroups(raw) :
             (\E kv \in Stores(Content(raw, h)) : kv[1] = k) => h[1] <= g[1]

\* the table the top-level groups give, each key keeping its last store
GroupTable(raw) ==
    [k \in Keys(raw) |->
        (CHOOSE kv \in Stores(Content(raw, LastStoring(raw, k))) : kv[1] = k)[2]]

ExampleTable ==
    [k \in {<<"4">>, <<"6">>, <<"A">>, <<"a">>, <<"C">>, <<"b">>} |->
        IF k = <<"b">> THEN <<"b","i","n","d","_","a","d","d","r","e","s","s">> ELSE <<>>]

\* C5: the table ssh_options returns is the one its top-level groups give
\* (nested brackets open no group, short and dashless groups are skipped,
\* a described group maps its flag to its text, a cluster maps each of its
\* characters to the empty string), as for the example banner.
C5_TableOfTopLevelGroups ==
    ssh_options_cache.computed =>
       /\ ssh_options_cache.value = GroupTable(Banner)
       /\ Banner = ExampleBanner => ssh_options_cache.value = ExampleTable

\* C5 witness: a banner with a bracket nested in a counted group.
C5_Witness ==
    /\ ssh_options_cache.computed
    /\ ssh_options_cache.value # EmptyDict
    /\ \E g \in TopGroups(Banner) :
          /\ Counted(Content(Banner, g))
          /\ \E i \in (g[1] + 1)..(g[2] - 1) : At(Banner, i) = "["

\* C7 as stated: for every banner the scan ends by returning a table; it
\* raises no error, unbalanced brackets included.
C7_ScanReturnsTable ==
    (env.ssh.status = "ok" /\ pc # "idle") =>
       pc = "returned" /\ ssh_options_cache.computed

\* key k has a description from a described group that no later described
\* group replaces, and a later cluster names k
DescribedThenCluster(raw, g, k) ==
    /\ g \in TopGroups(raw)
    /\ Described(Content(raw, g))
    /\ \E kv \in Stores(Content(raw, g)) : kv[1] = k
    /\ \A h \in TopGroups(raw) :
          (h[1] > g[1] /\ Described(Content(raw, h))) =>
             \A kv \in Stores(Content(raw, h)) : kv[1] # k
    /\ \E h \in TopGroups(raw) :
          /\ h[1] > g[1]
          /\ Cluster(Content(raw, h))
          /\ \E kv \in Stores(Content(raw, h)) : kv[1] = k

\* C10 as stated: a description stored by a described group is not
\* overwritten by a later cluster containing the same flag.
C10_ClusterKeepsDescription ==
    ssh_options_cache.computed =>
       \A g \in TopGroups(Banner) : \A kv \in Stores(Content(Banner, g)) :
          DescribedThenCluster(Banner, g, kv[1]) =>
             ssh_options_cache.value[kv[1]] = kv[2]

\* C10 amended: a cluster stores the empty string for each of its flags
\* whether or not the flag is present: a description stored by an earlier
\* described group is overwritten by a later cluster containing the flag.
C10_ClusterOverwritesDescription ==
    ssh_options_cache.computed =>
       \A g \in TopGroups(Banner) : \A kv \in Stores(Content(Banner, g)) :
          DescribedThenCluster(Banner, g, kv[1]) =>
             ssh_options_cache.value[kv[1]] = <<>>

\* C10 witness: a described flag with a non-empty text, then a cluster
\* with the same flag, and the flag maps to the empty string.
C10_Witness ==
    /\ ssh_options_cache.computed
    /\ \E g \in TopGroups(Banner) : \E kv \in Stores(Content(Banner, g)) :
          /\ kv[2] # <<>>
          /\ DescribedThenCluster(Banner, g, kv[1])
          /\ ssh_options_cache.value[kv[1]] = <<>>

====
